---------------------------- MODULE Spec2Model ----------------------------
(***************************************************************************)
(* A model of facebook_scraper/api.py: the WSGI application `app`, its     *)
(* POST /posts pipeline (_handle_posts, _load_json_body, _collect_posts,   *)
(* _extract_target, _extract_request_kwargs, _coerce_int) and the error    *)
(* classification of _handle_posts.  The scraping capability get_posts is  *)
(* external: it is modelled by what it can do to its caller (raise when    *)
(* called, yield posts, raise or stop while being iterated).               *)
(***************************************************************************)
EXTENDS Integers, Sequences, FiniteSets, TLC

\* ---------------------------------------------------------------- bounds

\* The longest sequence of posts a capability yields in the model.
MaxPosts == 11
\* The longest sequence of posts of a capability in the concurrent runs.
ConcPosts == 2
\* The number of requests handled concurrently in SpecConc.
NumReq == 2

\* ------------------------------------------------------ program constants

DEFAULT_LIMIT == 10
MAX_LIMIT == 100

\* ------------------------------------------------------------ JSON values

(* A JSON value as json.loads returns it, by Python type.  t is the type,  *)
(* n the number it carries (an int's value; a finite float's value in      *)
(* tenths; a list's or dict's length; a bool as 0/1), s a str's characters.*)
JVal(t, n, s) == [t |-> t, n |-> n, s |-> s]
\* The key is not in the payload.
Absent == JVal("absent", 0, <<>>)
Null == JVal("null", 0, <<>>)
JBool(b) == JVal("bool", IF b THEN 1 ELSE 0, <<>>)
JInt(i) == JVal("int", i, <<>>)
\* The finite float tenths/10, e.g. JFloat(25) is 2.5.
JFloat(tenths) == JVal("float", tenths, <<>>)
\* float('inf'): json.loads of 1e999 or Infinity.
JInf == JVal("inf", 0, <<>>)
\* float('nan'): json.loads of NaN.
JNaN == JVal("nan", 0, <<>>)
JStr(chars) == JVal("str", 0, chars)
JList(len) == JVal("list", len, <<>>)
JObj(len) == JVal("dict", len, <<>>)

\* ------------------------------------------------------------- exceptions

Exc(cls, status, detail) == [cls |-> cls, status |-> status, detail |-> detail]
NoExc == Exc("none", 0, <<>>)
\* class APIError(Exception): status_code and detail.
APIError(status, detail) == Exc("APIError", status, detail)
\* Any other exception class; detail holds str(exc).
Raised(cls, msg) == Exc(cls, 0, <<msg>>)

\* The outcome of a call: a returned value or a raised exception.
Ok(val) == [ok |-> TRUE, val |-> val, exc |-> NoExc]
Raise(exc) == [ok |-> FALSE, val |-> 0, exc |-> exc]

\* ------------------------------------------------------------ Python int()

IsSpace(c) == c \in {" ", "\t", "\n"}
IsDigit(c) == c \in {"0", "1", "2", "3", "4", "5", "6", "7", "8", "9"}
DigitVal(c) ==
    CASE c = "0" -> 0 [] c = "1" -> 1 [] c = "2" -> 2 [] c = "3" -> 3
      [] c = "4" -> 4 [] c = "5" -> 5 [] c = "6" -> 6 [] c = "7" -> 7
      [] c = "8" -> 8 [] c = "9" -> 9 [] OTHER -> 0

RECURSIVE LStrip(_)
LStrip(s) == IF s # <<>> /\ IsSpace(Head(s)) THEN LStrip(Tail(s)) ELSE s
RECURSIVE RStrip(_)
RStrip(s) ==
    IF s # <<>> /\ IsSpace(s[Len(s)]) THEN RStrip(SubSeq(s, 1, Len(s) - 1)) ELSE s
Strip(s) == RStrip(LStrip(s))

RECURSIVE DigitsValue(_, _)
DigitsValue(s, acc) ==
    IF s = <<>> THEN acc ELSE DigitsValue(Tail(s), 10 * acc + DigitVal(Head(s)))

\* int(str): surrounding whitespace, an optional sign, then decimal digits;
\* anything else is a ValueError.
IntOfStr(s) ==
    LET t == Strip(s)
        signed == t # <<>> /\ Head(t) \in {"+", "-"}
        digits == IF signed THEN Tail(t) ELSE t
    IN  IF digits # <<>> /\ \A i \in 1..Len(digits) : IsDigit(digits[i])
        THEN Ok(IF signed /\ Head(t) = "-"
                THEN 0 - DigitsValue(digits, 0) ELSE DigitsValue(digits, 0))
        ELSE Raise(Raised("ValueError", "invalid literal for int()"))

\* int(float): truncation toward zero.
TruncTenths(tenths) == IF tenths >= 0 THEN tenths \div 10 ELSE 0 - ((0 - tenths) \div 10)

\* Python's int(value) for a value json.loads can return.
PyInt(value) ==
    CASE value.t = "int" -> Ok(value.n)
      [] value.t = "bool" -> Ok(value.n)
      [] value.t = "float" -> Ok(TruncTenths(value.n))
      [] value.t = "inf" ->
            Raise(Raised("OverflowError", "cannot convert float infinity to integer"))
      [] value.t = "nan" ->
            Raise(Raised("ValueError", "cannot convert float NaN to integer"))
      [] value.t = "str" -> IntOfStr(value.s)
      [] OTHER -> Raise(Raised("TypeError", "int() argument must be a string or a number"))


\* Python truthiness, bool(value).
PyBool(value) ==
    CASE value.t \in {"absent", "null"} -> FALSE
      [] value.t \in {"bool", "int", "float", "list", "dict"} -> value.n # 0
      [] value.t = "str" -> value.s # <<>>
      [] OTHER -> TRUE

\* ------------------------------------------------------------ the payload

TargetFields == <<"account", "group", "post_urls", "hashtag">>
IntKeys == <<"pages", "page_limit", "timeout">>
PayloadKeys ==
    {"account", "group", "post_urls", "hashtag", "pages", "page_limit", "timeout",
     "options", "cookies", "extra_info", "youtube_dl", "limit"}
KwargKeys ==
    {"pages", "page_limit", "timeout", "options", "cookies", "extra_info", "youtube_dl"}

\* `key in payload`
HasKey(payload, key) == payload[key].t # "absent"
\* payload.get(key, default)
Get(payload, key, default) == IF HasKey(payload, key) THEN payload[key] ELSE default

\* --------------------------------------------------------- error messages

MsgExactlyOne == "Exactly one of account, group, post_urls, or hashtag is required"
MsgPostUrls == "post_urls must be a non-empty list of URLs"
MsgOptions == "options must be an object"
MsgCookies == "cookies must be a string path or name/value mapping"
MsgBodyRequired == "Request body is required"
MsgInvalidJson == "Invalid JSON payload: "
MsgNotObject == "JSON payload must be an object"
MsgContentType == "Content-Type must be application/json"
MsgFailed == "Failed to fetch posts"
MsgNotFound == "Not Found"

\* ------------------------------------------------------------ _coerce_int

\* `maximum: Optional[int] = None`: <<>> is None, <<m>> is m.
NoMaximum == <<>>

(* _coerce_int(value, field, minimum, maximum).  A bool is refused first;  *)
(* int(value) then converts, and only its TypeError and ValueError become  *)
(* an APIError: any other exception of int() leaves the function as it is. *)
_coerce_int(value, field, minimum, maximum) ==
    IF value.t = "bool"
    THEN Raise(APIError(400, <<field, " must be an integer">>))
    ELSE LET conv == PyInt(value)
         IN  IF ~conv.ok
             THEN IF conv.exc.cls \in {"TypeError", "ValueError"}
                  THEN Raise(APIError(400, <<field, " must be an integer">>))
                  ELSE Raise(conv.exc)
             ELSE IF conv.val < minimum
                  THEN Raise(APIError(400, <<field, " must be >= ", ToString(minimum)>>))
                  ELSE IF maximum # NoMaximum /\ conv.val > maximum[1]
                       THEN Raise(APIError(400,
                                <<field, " must be <= ", ToString(maximum[1])>>))
                       ELSE Ok(conv.val)

\* CoerceLimit with MAX_LIMIT taken as the default.
CoerceLimitDefaultMax(payload) ==
    _coerce_int(Get(payload, "limit", JInt(MAX_LIMIT)), "limit", 1, <<MAX_LIMIT>>)

\* The limit of a payload: payload.get("limit", DEFAULT_LIMIT) coerced.
CoerceLimit(payload) ==
    _coerce_int(Get(payload, "limit", JInt(DEFAULT_LIMIT)), "limit", 1, <<MAX_LIMIT>>)

\* ---------------------------------------------------------- _extract_target

\* `value not in (None, "", [])`, value being payload.get(field).
CountsAsTarget(value) ==
    ~ \/ value.t \in {"absent", "null"}
      \/ value.t = "str" /\ value.s = <<>>
      \/ value.t = "list" /\ value.n = 0

\* The candidates list: the target fields that count, in their fixed order.
Candidates(payload) ==
    LET counts(field) == CountsAsTarget(payload[field])
    IN  SelectSeq(TargetFields, counts)

\* WrongCandidateCount with only the empty list refused: the first candidate wins.
NoCandidate(candidates) == Len(candidates) = 0

\* `len(candidates) != 1`
WrongCandidateCount(candidates) == Len(candidates) # 1

\* BadPostUrls without the isinstance test.
BadPostUrlsOnlyEmpty(value) == ~PyBool(value)

\* `not isinstance(value, list) or not value`
BadPostUrls(value) == value.t # "list" \/ ~PyBool(value)

NoTarget == [field |-> "", value |-> Absent]

_extract_target(payload) ==
    LET candidates == Candidates(payload)
    IN  IF WrongCandidateCount(candidates)
        THEN Raise(APIError(400, <<MsgExactlyOne>>))
        ELSE LET field == candidates[1]
                 value == payload[field]
             IN  IF field = "post_urls" /\ BadPostUrls(value)
                 THEN Raise(APIError(400, <<MsgPostUrls>>))
                 ELSE Ok([field |-> field, value |-> value])

\* -------------------------------------------------- _extract_request_kwargs

NoKwargs == [k \in KwargKeys |-> Absent]

\* The first of pages, page_limit, timeout whose coercion raises (0: none).
RECURSIVE FirstBadIntKey(_, _)
FirstBadIntKey(payload, i) ==
    IF i > Len(IntKeys) THEN 0
    ELSE IF HasKey(payload, IntKeys[i])
            /\ ~_coerce_int(payload[IntKeys[i]], IntKeys[i], 1, NoMaximum).ok
         THEN i
         ELSE FirstBadIntKey(payload, i + 1)

_extract_request_kwargs(payload) ==
    LET bad == FirstBadIntKey(payload, 1)
        options == Get(payload, "options", Null)
        cookies == Get(payload, "cookies", Null)
    IN  IF bad # 0
        THEN Raise(_coerce_int(payload[IntKeys[bad]], IntKeys[bad], 1, NoMaximum).exc)
        ELSE IF options.t # "null" /\ options.t # "dict"
        THEN Raise(APIError(400, <<MsgOptions>>))
        ELSE IF cookies.t # "null" /\ cookies.t \notin {"dict", "str"}
        THEN Raise(APIError(400, <<MsgCookies>>))
        ELSE Ok([k \in KwargKeys |->
                  IF k \in {"pages", "page_limit", "timeout"}
                  THEN IF HasKey(payload, k)
                       THEN JInt(_coerce_int(payload[k], k, 1, NoMaximum).val)
                       ELSE Absent
                  ELSE IF k = "options" THEN (IF options.t # "null" THEN options ELSE Absent)
                  ELSE IF k = "cookies" THEN (IF cookies.t # "null" THEN cookies ELSE Absent)
                  ELSE IF HasKey(payload, k) THEN JBool(PyBool(payload[k])) ELSE Absent])

\* --------------------------------------------------------------- responses

Response(status, kind, detail, count, posts) ==
    [status |-> status, kind |-> kind, detail |-> detail, count |-> count, posts |-> posts]
NoResponse == Response(0, "none", <<>>, 0, <<>>)
\* _json_response(start_response, status, {"detail": detail})
DetailResponse(status, detail) == Response(status, "detail", detail, 0, <<>>)
\* _json_response(start_response, HTTPStatus.OK, {"count": len(posts), "posts": posts})
PostsResponse(posts) == Response(200, "posts", <<>>, Len(posts), posts)
\* The responses of the routes that take no input: their body is fixed.
FixedResponse(status, kind) == Response(status, kind, <<>>, 0, <<>>)

\* ------------------------------------------------------------------- app

\* str.upper() on the method names of the model.
Upper(m) ==
    CASE m = "get" -> "GET" [] m = "post" -> "POST" [] m = "Post" -> "POST"
      [] m = "options" -> "OPTIONS" [] m = "delete" -> "DELETE" [] OTHER -> m

\* `(environ.get("REQUEST_METHOD") or "GET").upper()`; "" is a missing or empty one.
Method(environ) == Upper(IF environ.method = "" THEN "GET" ELSE environ.method)
\* `environ.get("PATH_INFO") or "/"`
Path(environ) == IF environ.path = "" THEN "/" ELSE environ.path

\* Route with /posts handed to _handle_posts whatever the method.
RouteAnyMethod(method, path) ==
    CASE method = "OPTIONS" /\ path = "/posts" -> "options"
      [] method = "GET" /\ path = "/" -> "index"
      [] method = "GET" /\ path = "/health" -> "health"
      [] method = "GET" /\ path = "/openapi.json" -> "openapi"
      [] method = "GET" /\ path = "/docs" -> "docs"
      [] path = "/posts" -> "posts"
      [] OTHER -> "not_found"

\* The branch of app() a (method, path) takes.
Route(method, path) ==
    CASE method = "OPTIONS" /\ path = "/posts" -> "options"
      [] method = "GET" /\ path = "/" -> "index"
      [] method = "GET" /\ path = "/health" -> "health"
      [] method = "GET" /\ path = "/openapi.json" -> "openapi"
      [] method = "GET" /\ path = "/docs" -> "docs"
      [] method = "POST" /\ path = "/posts" -> "posts"
      [] OTHER -> "not_found"

\* The response of every branch of app() but the one to _handle_posts.
RouteResponse(route) ==
    CASE route = "options" -> FixedResponse(204, "options")
      [] route = "index" -> FixedResponse(200, "index")
      [] route = "health" -> FixedResponse(200, "health")
      [] route = "openapi" -> FixedResponse(200, "openapi")
      [] route = "docs" -> FixedResponse(200, "docs")
      [] OTHER -> DetailResponse(404, <<MsgNotFound>>)

\* ---------------------------------------------------------------- _is_json

\* str.lower() on the parts of the content types of the model.
Lower(part) ==
    CASE part = "Application/JSON" -> "application/json"
      [] part = "TEXT/PLAIN" -> "text/plain"
      [] OTHER -> part

(* A CONTENT_TYPE is None or a string, the string cut into parts so that   *)
(* `"application/json" in content_type.lower()` is a test on its parts.    *)
NoContentType == [none |-> TRUE, parts |-> <<>>]
ContentType(parts) == [none |-> FALSE, parts |-> parts]

_is_json(content_type) ==
    IF content_type.none \/ content_type.parts = <<>>
    THEN FALSE
    ELSE \E i \in 1..Len(content_type.parts) :
            Lower(content_type.parts[i]) = "application/json"

\* --------------------------------------------------------- _load_json_body

(* The bytes read from wsgi.input, by what json.loads makes of them:       *)
(* "empty" (b""), "badutf8" (raw.decode raises UnicodeDecodeError),        *)
(* "malformed" (JSONDecodeError), "nonobject" (a JSON value that is no     *)
(* dict), "object" (a dict, environ.payload).                              *)
_load_json_body(environ) ==
    CASE environ.body = "empty" -> Raise(APIError(400, <<MsgBodyRequired>>))
      [] environ.body = "badutf8" ->
            Raise(Raised("UnicodeDecodeError", "invalid start byte"))
      [] environ.body = "malformed" ->
            Raise(APIError(400, <<MsgInvalidJson, "Expecting value">>))
      [] environ.body = "nonobject" -> Raise(APIError(400, <<MsgNotObject>>))
      [] OTHER -> Ok(environ.payload)

\* ------------------------------------------- _handle_posts: except clauses

\* HandleException without the InvalidCookies clause.
HandleExceptionNoCookiesClause(exc) ==
    IF exc.cls = "APIError" THEN DetailResponse(exc.status, exc.detail)
    ELSE DetailResponse(502, <<MsgFailed>>)

\* HandleException with str(exc) as the detail of the last clause.
HandleExceptionLeaks(exc) ==
    IF exc.cls = "APIError" THEN DetailResponse(exc.status, exc.detail)
    ELSE IF exc.cls = "InvalidCookies" THEN DetailResponse(401, exc.detail)
    ELSE DetailResponse(502, exc.detail)

\* The response to an exception that leaves the try block of _handle_posts.
HandleException(exc) ==
    IF exc.cls = "APIError" THEN DetailResponse(exc.status, exc.detail)
    ELSE IF exc.cls = "InvalidCookies" THEN DetailResponse(401, exc.detail)
    ELSE DetailResponse(502, <<MsgFailed>>)

\* ---------------------------------------------------------- the capability

(* get_posts as its caller sees it: the call raises (call # "ok") or       *)
(* returns an iterator that yields n posts and then stops (end = "stop")   *)
(* or raises (end is the exception's class); msg is str(exc).              *)
Capability(call, n, end, msg) == [call |-> call, n |-> n, end |-> end, msg |-> msg]
\* The i-th post of the sequence made for request r.
Post(r, i) == <<r, i>>

\* LimitReached with > for >=.
LimitReachedLate(results, limit) == Len(results) > limit

\* `len(results) >= limit`
LimitReached(results, limit) == Len(results) >= limit

\* AppendResult on one results list that every request shares.
AppendResultShared(results, r, post) == [q \in DOMAIN results |-> Append(results[q], post)]

\* `results.append(post)` on the results list of request r.
AppendResult(results, r, post) == [results EXCEPT ![r] = Append(@, post)]

\* ------------------------------------------------------------------ state

VARIABLES
    environ,    \* environ[r]: the WSGI environ of request r
    capability, \* capability[r]: what get_posts does when request r calls it
    pc,         \* pc[r]: the statement request r's worker is at
    payload,    \* payload[r]: _handle_posts' payload
    target,     \* target[r]: _collect_posts' target_field, target_value
    kwargs,     \* kwargs[r]: _collect_posts' request_kwargs
    limit,      \* limit[r]: _collect_posts' limit
    results,    \* results[r]: _collect_posts' results list
    yielded,    \* yielded[r]: how many posts request r's iterator has yielded
    calls,      \* calls[r]: how many times request r has called get_posts
    nexts,      \* nexts[r]: how many times request r has asked its iterator for a post
    response    \* response[r]: the response written by start_response

vars ==
    <<environ, capability, pc, payload, target, kwargs, limit, results, yielded,
      calls, nexts, response>>

Requests == DOMAIN pc

\* -------------------------------------------------------------- the inputs

NoPayload == [k \in PayloadKeys |-> Absent]
AccountPayload == [NoPayload EXCEPT !["account"] = JStr(<<"n">>)]
JsonType == ContentType(<<"application/json">>)
Environ(method, path, ctype, body, pl) ==
    [method |-> method, path |-> path, ctype |-> ctype, body |-> body, payload |-> pl]
\* A well-formed POST /posts carrying payload pl.
PostOf(pl) == Environ("POST", "/posts", JsonType, "object", pl)
Input(env, cap) == [environ |-> env, capability |-> cap]

Methods == {"GET", "POST", "OPTIONS", "DELETE", "PUT", "get", "post", "Post", "options", ""}
Paths == {"/", "/health", "/openapi.json", "/docs", "/posts", "/posts/", "/nope", ""}
ContentTypes ==
    {NoContentType, ContentType(<<>>), JsonType,
     ContentType(<<"Application/JSON", "; charset=utf-8">>),
     ContentType(<<"text/plain">>), ContentType(<<"TEXT/PLAIN">>)}
Bodies == {"empty", "badutf8", "malformed", "nonobject", "object"}
Messages == {"bad cookies", "boom"}
Failures == {"InvalidCookies", "RuntimeError"}

\* What a capability can do with at most n posts.
Capabilities(n) ==
    {Capability("ok", k, "stop", "") : k \in 0..n}
    \cup {Capability("ok", k, f, m) : k \in 0..n, f \in Failures, m \in Messages}
    \cup {Capability(f, 0, "stop", m) : f \in Failures, m \in Messages}
ThreePosts == Capability("ok", 3, "stop", "")

StringTargets == {Absent, Null, JStr(<<>>), JStr(<<"n">>), JList(0)}
PostUrlsValues ==
    {Absent, Null, JStr(<<>>), JStr(<<"x">>), JList(0), JList(1), JList(2),
     JInt(0), JBool(FALSE), JObj(0)}
LimitValues ==
    {Absent, Null, JBool(TRUE), JBool(FALSE),
     JInt(-1), JInt(0), JInt(1), JInt(2), JInt(3), JInt(10), JInt(11), JInt(100),
     JInt(101), JFloat(5), JFloat(20), JFloat(25), JFloat(1009), JFloat(1010), JFloat(-5), JInf,
     JNaN, JStr(<<>>), JStr(<<"5">>), JStr(<<" ", "7", " ">>), JStr(<<"a">>),
     JStr(<<"2", ".", "5">>), JStr(<<"1", "0", "1">>), JList(1), JObj(0)}

\* Every method on every path.
RouteInputs ==
    {Input(Environ(m, p, JsonType, "object", AccountPayload), ThreePosts) :
        m \in Methods, p \in Paths}
\* Every content type with every body, the payload valid or without a target.
BodyInputs ==
    {Input(Environ("POST", "/posts", c, b, pl), ThreePosts) :
        c \in ContentTypes, b \in Bodies, pl \in {AccountPayload, NoPayload}}
\* Every combination of the four target fields.
TargetInputs ==
    {Input(PostOf([NoPayload EXCEPT !["account"] = a, !["group"] = g,
                                    !["post_urls"] = u, !["hashtag"] = h]), ThreePosts) :
        a \in StringTargets, g \in StringTargets, u \in PostUrlsValues,
        h \in {Absent, JStr(<<"h">>)}}
\* The options, valid and invalid, with and without a target and a valid limit.
OptionInputs ==
    {Input(PostOf([NoPayload EXCEPT !["account"] = a, !["pages"] = pg,
                                    !["page_limit"] = pl, !["timeout"] = t,
                                    !["options"] = o, !["cookies"] = c,
                                    !["extra_info"] = x, !["limit"] = l]), ThreePosts) :
        a \in {Absent, JStr(<<"n">>)},
        pg \in {Absent, JInt(1), JInt(0), Null, JInf},
        pl \in {Absent, JInt(2), JBool(TRUE)},
        t \in {Absent, JStr(<<"5">>), JStr(<<"a">>)},
        o \in {Absent, Null, JObj(1), JList(1)},
        c \in {Absent, JStr(<<"c">>), JObj(1), JInt(1)},
        x \in {Absent, JInt(0)},
        l \in {Absent, JInt(2), JInt(0)}}
\* Every limit with every capability.
LimitInputs ==
    {Input(PostOf([AccountPayload EXCEPT !["limit"] = l]), cap) :
        l \in LimitValues, cap \in Capabilities(MaxPosts)}

Inputs == RouteInputs \cup BodyInputs \cup TargetInputs \cup OptionInputs \cup LimitInputs

\* The requests of the concurrent runs.
ConcInputs ==
    {Input(PostOf([AccountPayload EXCEPT !["limit"] = l]), Capability("ok", k, "stop", "")) :
        l \in {JInt(1), JInt(2)}, k \in {0, ConcPosts}}
    \cup {Input(PostOf(AccountPayload), Capability("ok", 1, "InvalidCookies", "bad cookies")),
          Input(PostOf(NoPayload), ThreePosts),
          Input(Environ("GET", "/health", NoContentType, "empty", NoPayload), ThreePosts)}

\* ------------------------------------------------------------------- Init

\* The requests rs arrive, each with an input of the set ins; no worker has started.
InitWith(rs, ins) ==
    /\ \E input \in [rs -> ins] :
          /\ environ = [r \in rs |-> input[r].environ]
          /\ capability = [r \in rs |-> input[r].capability]
    /\ pc = [r \in rs |-> "app"]
    /\ payload = [r \in rs |-> NoPayload]
    /\ target = [r \in rs |-> NoTarget]
    /\ kwargs = [r \in rs |-> NoKwargs]
    /\ limit = [r \in rs |-> 0]
    /\ results = [r \in rs |-> <<>>]
    /\ yielded = [r \in rs |-> 0]
    /\ calls = [r \in rs |-> 0]
    /\ nexts = [r \in rs |-> 0]
    /\ response = [r \in rs |-> NoResponse]

Init == InitWith({1}, Inputs)
InitConc == InitWith(1..NumReq, ConcInputs)

\* ---------------------------------------------------------------- actions

\* The worker of request r goes on to statement `step`.
Goto(r, step) == pc' = [pc EXCEPT ![r] = step]
\* The worker of request r writes its response and returns.
Respond(r, resp) ==
    /\ response' = [response EXCEPT ![r] = resp]
    /\ Goto(r, "done")

\* NextStep with the limit coerced before the options are extracted.
NextStepLimitFirst(step) ==
    CASE step = "target" -> "limit"
      [] step = "limit" -> "options"
      [] step = "options" -> "get_posts"
      [] OTHER -> "done"

\* The statement of _collect_posts that follows `step`.
NextStep(step) ==
    CASE step = "target" -> "options"
      [] step = "options" -> "limit"
      [] step = "limit" -> "get_posts"
      [] OTHER -> "done"

\* app(): the dispatch on (method, path).
App(r) ==
    /\ pc[r] = "app"
    /\ LET route == Route(Method(environ[r]), Path(environ[r]))
       IN  IF route = "posts"
           THEN Goto(r, "is_json") /\ UNCHANGED response
           ELSE Respond(r, RouteResponse(route))
    /\ UNCHANGED <<environ, capability, payload, target, kwargs, limit, results,
                   yielded, calls, nexts>>

\* _handle_posts: the Content-Type check.
CheckContentType(r) ==
    /\ pc[r] = "is_json"
    /\ IF _is_json(environ[r].ctype)
       THEN Goto(r, "load_body") /\ UNCHANGED response
       ELSE Respond(r, DetailResponse(415, <<MsgContentType>>))
    /\ UNCHANGED <<environ, capability, payload, target, kwargs, limit, results,
                   yielded, calls, nexts>>

\* _handle_posts: payload = _load_json_body(environ)
LoadJsonBody(r) ==
    /\ pc[r] = "load_body"
    /\ LET got == _load_json_body(environ[r])
       IN  IF got.ok
           THEN /\ payload' = [payload EXCEPT ![r] = got.val]
                /\ Goto(r, "target")
                /\ UNCHANGED response
           ELSE /\ Respond(r, HandleException(got.exc))
                /\ UNCHANGED payload
    /\ UNCHANGED <<environ, capability, target, kwargs, limit, results, yielded,
                   calls, nexts>>

\* _collect_posts: target_field, target_value = _extract_target(payload)
ExtractTarget(r) ==
    /\ pc[r] = "target"
    /\ LET got == _extract_target(payload[r])
       IN  IF got.ok
           THEN /\ target' = [target EXCEPT ![r] = got.val]
                /\ Goto(r, NextStep("target"))
                /\ UNCHANGED response
           ELSE /\ Respond(r, HandleException(got.exc))
                /\ UNCHANGED target
    /\ UNCHANGED <<environ, capability, payload, kwargs, limit, results, yielded,
                   calls, nexts>>

\* _collect_posts: request_kwargs = _extract_request_kwargs(payload)
ExtractRequestKwargs(r) ==
    /\ pc[r] = "options"
    /\ LET got == _extract_request_kwargs(payload[r])
       IN  IF got.ok
           THEN /\ kwargs' = [kwargs EXCEPT ![r] = got.val]
                /\ Goto(r, NextStep("options"))
                /\ UNCHANGED response
           ELSE /\ Respond(r, HandleException(got.exc))
                /\ UNCHANGED kwargs
    /\ UNCHANGED <<environ, capability, payload, target, limit, results, yielded,
                   calls, nexts>>

\* _collect_posts: limit = _coerce_int(payload.get("limit", DEFAULT_LIMIT), ...)
CoerceLimitStep(r) ==
    /\ pc[r] = "limit"
    /\ LET got == CoerceLimit(payload[r])
       IN  IF got.ok
           THEN /\ limit' = [limit EXCEPT ![r] = got.val]
                /\ Goto(r, NextStep("limit"))
                /\ UNCHANGED response
           ELSE /\ Respond(r, HandleException(got.exc))
                /\ UNCHANGED limit
    /\ UNCHANGED <<environ, capability, payload, target, kwargs, results, yielded,
                   calls, nexts>>

\* _collect_posts: iterator = get_posts(...); results = []
GetPosts(r) ==
    /\ pc[r] = "get_posts"
    /\ calls' = [calls EXCEPT ![r] = @ + 1]
    /\ IF capability[r].call = "ok"
       THEN /\ results' = [results EXCEPT ![r] = <<>>]
            /\ Goto(r, "for")
            /\ UNCHANGED response
       ELSE /\ Respond(r, HandleException(Raised(capability[r].call, capability[r].msg)))
            /\ UNCHANGED results
    /\ UNCHANGED <<environ, capability, payload, target, kwargs, limit, yielded, nexts>>

(* _collect_posts: one turn of `for post in iterator`: the iterator is     *)
(* asked for a post; it yields one (appended, and the loop breaks once the *)
(* limit is reached), or it is exhausted (the loop ends), or it raises.    *)
NextPost(r) ==
    /\ pc[r] = "for"
    /\ nexts' = [nexts EXCEPT ![r] = @ + 1]
    /\ IF yielded[r] < capability[r].n
       THEN /\ yielded' = [yielded EXCEPT ![r] = @ + 1]
            /\ results' = AppendResult(results, r, Post(r, yielded[r] + 1))
            /\ IF LimitReached(results'[r], limit[r])
               THEN Goto(r, "return")
               ELSE UNCHANGED pc
            /\ UNCHANGED response
       ELSE IF capability[r].end = "stop"
       THEN /\ Goto(r, "return")
            /\ UNCHANGED <<yielded, results, response>>
       ELSE /\ Respond(r, HandleException(Raised(capability[r].end, capability[r].msg)))
            /\ UNCHANGED <<yielded, results>>
    /\ UNCHANGED <<environ, capability, payload, target, kwargs, limit, calls>>

\* _handle_posts: posts = _collect_posts(payload) returned; the 200 response.
ReturnPosts(r) ==
    /\ pc[r] = "return"
    /\ Respond(r, PostsResponse(results[r]))
    /\ UNCHANGED <<environ, capability, payload, target, kwargs, limit, results,
                   yielded, calls, nexts>>

Next ==
    \/ \E r \in Requests : App(r)
    \/ \E r \in Requests : CheckContentType(r)
    \/ \E r \in Requests : LoadJsonBody(r)
    \/ \E r \in Requests : ExtractTarget(r)
    \/ \E r \in Requests : ExtractRequestKwargs(r)
    \/ \E r \in Requests : CoerceLimitStep(r)
    \/ \E r \in Requests : GetPosts(r)
    \/ \E r \in Requests : NextPost(r)
    \/ \E r \in Requests : ReturnPosts(r)

\* One request at a time, over every input of the model.
Spec == Init /\ [][Next]_vars
\* NumReq requests whose workers interleave statement by statement.
SpecConc == InitConc /\ [][Next]_vars

\* ----------------------------------------------------------- the properties

Done(r) == pc[r] = "done"
PayloadOf(r) == environ[r].payload
\* Request r is a POST /posts as app() reads it.
IsPostsRequest(r) == Method(environ[r]) = "POST" /\ Path(environ[r]) = "/posts"
\* Request r is a POST /posts with a JSON Content-Type whose body is a JSON object.
JsonObjectPost(r) ==
    IsPostsRequest(r) /\ _is_json(environ[r].ctype) /\ environ[r].body = "object"
TargetOk(r) == _extract_target(PayloadOf(r)).ok
OptionsOk(r) == _extract_request_kwargs(PayloadOf(r)).ok
LimitOk(r) == CoerceLimit(PayloadOf(r)).ok
\* Every step before the collection succeeds.
ValidPost(r) == JsonObjectPost(r) /\ TargetOk(r) /\ OptionsOk(r) /\ LimitOk(r)
\* The limit of a valid request.
LimitOf(r) == CoerceLimit(PayloadOf(r)).val
\* The first k posts of request r's sequence, in their order.
FirstPosts(r, k) == [i \in 1..k |-> Post(r, i)]

\* The field is in the JSON object with a value other than null.
Supplied(value) == value.t \notin {"absent", "null"}
\* The field is supplied with a value other than "" and [].
Present(value) == Supplied(value) /\ value # JStr(<<>>) /\ value # JList(0)
NumSupplied(pl) == Cardinality({i \in 1..Len(TargetFields) : Supplied(pl[TargetFields[i]])})
NumPresent(pl) == Cardinality({i \in 1..Len(TargetFields) : Present(pl[TargetFields[i]])})

\* The capability raises cls to request r: when called, or when asked for a post
\* the collector needs after the ones it has yielded.
RaisesTo(r, cls) ==
    /\ ValidPost(r)
    /\ \/ capability[r].call = cls
       \/ /\ capability[r].call = "ok"
          /\ capability[r].end = cls
          /\ capability[r].n < LimitOf(r)

(* C1: for a valid POST /posts whose capability yields more posts than the *)
(* limit, the iterator is never asked for more than `limit` posts, and the *)
(* response is 200 with count = limit and posts = the first `limit` posts  *)
(* of the sequence in their order.                                         *)
C1_LimitsResults ==
    \A r \in Requests :
        ValidPost(r) /\ capability[r].call = "ok" /\ capability[r].n > LimitOf(r)
        => /\ nexts[r] <= LimitOf(r)
           /\ yielded[r] <= LimitOf(r)
           /\ Done(r) =>
                response[r] =
                    Response(200, "posts", <<>>, LimitOf(r), FirstPosts(r, LimitOf(r)))

\* The case of the repository's test: limit 2, three posts, the first two returned.
C1_Witness ==
    \E r \in Requests :
        /\ ValidPost(r) /\ Done(r)
        /\ PayloadOf(r)["limit"] = JInt(2)
        /\ capability[r] = Capability("ok", 3, "stop", "")
        /\ nexts[r] = 2
        /\ response[r].count = 2
        /\ response[r].posts = <<Post(r, 1), Post(r, 2)>>

\* Request r was refused with the "Exactly one" error before any call of get_posts.
RefusedExactlyOne(r) ==
    /\ calls[r] = 0
    /\ Done(r) => response[r] = DetailResponse(400, <<MsgExactlyOne>>)

(* C2 as stated: a JSON-object POST /posts in which none, or two or more,  *)
(* of account, group, post_urls, hashtag is supplied is answered 400       *)
(* "Exactly one ..." and get_posts is not called.                          *)
C2_Original ==
    \A r \in Requests :
        JsonObjectPost(r) /\ NumSupplied(PayloadOf(r)) # 1 => RefusedExactlyOne(r)

(* C2, amended: a JSON-object POST /posts (JSON Content-Type) in which     *)
(* none, or two or more, of account, group, post_urls, hashtag has a value *)
(* other than null, "" and [] is answered 400 "Exactly one ..." and        *)
(* get_posts is not called.                                                *)
C2_ExactlyOneTarget ==
    \A r \in Requests :
        JsonObjectPost(r) /\ NumPresent(PayloadOf(r)) # 1 => RefusedExactlyOne(r)

\* Two targets are present and the request has been refused.
C2_Witness ==
    \E r \in Requests :
        /\ JsonObjectPost(r) /\ Done(r)
        /\ NumPresent(PayloadOf(r)) >= 2
        /\ response[r] = DetailResponse(400, <<MsgExactlyOne>>)

\* The value is an integer (a JSON integer, or a float without fraction) of [1, 100].
IntegerInRange(value) ==
    \/ value.t = "int" /\ value.n >= 1 /\ value.n <= MAX_LIMIT
    \/ value.t = "float" /\ value.n % 10 = 0 /\ value.n >= 10 /\ value.n <= 10 * MAX_LIMIT

(* C3: with a valid target and valid options, a supplied `limit` that is   *)
(* not an integer of [1, 100] is answered 400 with a detail that starts    *)
(* with `limit`, and get_posts is not called.                              *)
C3_LimitRejected ==
    \A r \in Requests :
        /\ JsonObjectPost(r) /\ TargetOk(r) /\ OptionsOk(r)
        /\ HasKey(PayloadOf(r), "limit")
        /\ ~IntegerInRange(PayloadOf(r)["limit"])
        => /\ calls[r] = 0
           /\ Done(r) => /\ response[r].status = 400
                         /\ response[r].detail # <<>>
                         /\ response[r].detail[1] = "limit"

\* post_urls is the only target field request r supplies, if it supplies any.
OnlyPostUrls(r) ==
    /\ JsonObjectPost(r)
    /\ \A f \in {"account", "group", "hashtag"} : ~Supplied(PayloadOf(r)[f])

(* C4 as stated: post_urls = [] or a non-list value, with no other target  *)
(* field, is answered 400 "post_urls must be a non-empty list ...".        *)
C4_Original ==
    \A r \in Requests :
        /\ OnlyPostUrls(r) /\ Done(r)
        /\ \/ PayloadOf(r)["post_urls"] = JList(0)
           \/ Supplied(PayloadOf(r)["post_urls"]) /\ PayloadOf(r)["post_urls"].t # "list"
        => response[r] = DetailResponse(400, <<MsgPostUrls>>)

(* C4, amended: with no other target field, a post_urls that is not a list *)
(* and is neither null nor "" is answered 400 "post_urls must be a         *)
(* non-empty list of URLs"; a post_urls of [], "" or null is answered 400  *)
(* "Exactly one of account, group, post_urls, or hashtag is required".     *)
(* get_posts is called in neither case.                                    *)
C4_PostUrlsRejected ==
    \A r \in Requests :
        OnlyPostUrls(r)
        => LET urls == PayloadOf(r)["post_urls"]
           IN  /\ Present(urls) /\ urls.t # "list"
                  => /\ calls[r] = 0
                     /\ Done(r) => response[r] = DetailResponse(400, <<MsgPostUrls>>)
               /\ ~Present(urls) => RefusedExactlyOne(r)

\* post_urls: "x" has been refused.
C4_Witness ==
    \E r \in Requests :
        /\ OnlyPostUrls(r) /\ Done(r)
        /\ PayloadOf(r)["post_urls"] = JStr(<<"x">>)
        /\ response[r] = DetailResponse(400, <<MsgPostUrls>>)

(* C5: when the capability raises InvalidCookies, at the call or while the *)
(* collector iterates, the response is 401 with the raised message as its  *)
(* detail and carries no post.                                             *)
C5_InvalidCookiesUnauthorized ==
    \A r \in Requests :
        RaisesTo(r, "InvalidCookies") /\ Done(r)
        => /\ response[r] = DetailResponse(401, <<capability[r].msg>>)
           /\ response[r].posts = <<>>

\* InvalidCookies was raised after posts had been collected.
C5_Witness ==
    \E r \in Requests :
        /\ RaisesTo(r, "InvalidCookies") /\ Done(r)
        /\ capability[r].call = "ok"
        /\ Len(results[r]) >= 1
        /\ response[r].status = 401

(* C6: when the capability raises another failure, at the call or while    *)
(* the collector iterates, the response is 502 with the fixed detail       *)
(* "Failed to fetch posts", in which the failure's message does not occur. *)
C6_UpstreamFailureGeneric ==
    \A r \in Requests :
        RaisesTo(r, "RuntimeError") /\ Done(r)
        => /\ response[r] = DetailResponse(502, <<MsgFailed>>)
           /\ \A i \in 1..Len(response[r].detail) :
                response[r].detail[i] # capability[r].msg

\* A RuntimeError was raised after posts had been collected.
C6_Witness ==
    \E r \in Requests :
        /\ RaisesTo(r, "RuntimeError") /\ Done(r)
        /\ capability[r].call = "ok"
        /\ Len(results[r]) >= 1
        /\ response[r].status = 502

(* C7: a POST /posts whose pipeline raises nothing is answered 200; every  *)
(* 200 response of POST /posts has count = len(posts) and count <= limit,  *)
(* the limit being 10 when the field is absent; a capability that yields   *)
(* no post gives 200 with count = 0 and posts = [].                        *)
C7_SuccessShape ==
    \A r \in Requests :
        IsPostsRequest(r) /\ Done(r)
        => /\ response[r].status = 200
              => /\ response[r].kind = "posts"
                 /\ response[r].count = Len(response[r].posts)
                 /\ response[r].count <= limit[r]
                 /\ ~HasKey(PayloadOf(r), "limit") => response[r].count <= DEFAULT_LIMIT
                 /\ PayloadOf(r)["limit"].t = "int"
                    => response[r].count <= PayloadOf(r)["limit"].n
           /\ ValidPost(r) /\ capability[r].call = "ok"
              /\ (capability[r].end = "stop" \/ capability[r].n >= LimitOf(r))
              => response[r].status = 200
           /\ ValidPost(r) /\ capability[r] = Capability("ok", 0, "stop", "")
              => response[r] = Response(200, "posts", <<>>, 0, <<>>)

\* No limit was given, the capability had more than 10 posts, 10 were returned.
C7_Witness ==
    \E r \in Requests :
        /\ ValidPost(r) /\ Done(r)
        /\ ~HasKey(PayloadOf(r), "limit")
        /\ capability[r].n > DEFAULT_LIMIT
        /\ response[r].status = 200
        /\ response[r].count = DEFAULT_LIMIT

\* The six (method, path) combinations that app() serves.
KnownRoutes ==
    {<<"GET", "/">>, <<"GET", "/health">>, <<"GET", "/openapi.json">>,
     <<"GET", "/docs">>, <<"POST", "/posts">>, <<"OPTIONS", "/posts">>}

\* Request r is answered 404 by app() itself: _handle_posts is never entered.
AnsweredNotFound(r) ==
    /\ pc[r] \in {"app", "done"}
    /\ calls[r] = 0
    /\ Done(r) => response[r] = DetailResponse(404, <<MsgNotFound>>)

(* C8 as stated: every (method, path) other than the six served ones is    *)
(* answered 404 {detail: "Not Found"} and never reaches the posts pipeline.*)
C8_Original ==
    \A r \in Requests :
        <<environ[r].method, environ[r].path>> \notin KnownRoutes => AnsweredNotFound(r)

(* C8, amended: the method is compared upper-cased (a missing or empty     *)
(* method reads as GET) and an empty path reads as "/"; every (method,     *)
(* path) that, read so, is none of the six served ones is answered 404     *)
(* {detail: "Not Found"} and never reaches the posts pipeline.             *)
C8_UnknownRoutesNotFound ==
    \A r \in Requests :
        <<Method(environ[r]), Path(environ[r])>> \notin KnownRoutes => AnsweredNotFound(r)

\* DELETE /posts has been answered 404.
C8_Witness ==
    \E r \in Requests :
        /\ environ[r].method = "DELETE" /\ environ[r].path = "/posts"
        /\ Done(r)
        /\ response[r] = DetailResponse(404, <<MsgNotFound>>)

\* The error response of the first step of POST /posts that fails, the steps taken
\* in the order Content-Type, body, target, options, limit.
NoFailure == [failed |-> FALSE, response |-> NoResponse]
Failure(resp) == [failed |-> TRUE, response |-> resp]
FirstFailure(r) ==
    IF ~_is_json(environ[r].ctype)
    THEN Failure(DetailResponse(415, <<MsgContentType>>))
    ELSE IF ~_load_json_body(environ[r]).ok
    THEN Failure(HandleException(_load_json_body(environ[r]).exc))
    ELSE IF ~TargetOk(r)
    THEN Failure(HandleException(_extract_target(PayloadOf(r)).exc))
    ELSE IF ~OptionsOk(r)
    THEN Failure(HandleException(_extract_request_kwargs(PayloadOf(r)).exc))
    ELSE IF ~LimitOk(r)
    THEN Failure(HandleException(CoerceLimit(PayloadOf(r)).exc))
    ELSE NoFailure

(* C9: POST /posts answers with the error of the first failing step of     *)
(* Content-Type check, body parsing, target resolution, option extraction, *)
(* limit coercion; get_posts is called only when none of them fails, and   *)
(* at most once.                                                           *)
C9_StepOrder ==
    \A r \in Requests :
        IsPostsRequest(r)
        => /\ calls[r] <= 1
           /\ calls[r] = 1 => ~FirstFailure(r).failed
           /\ Done(r) => IF FirstFailure(r).failed
                         THEN response[r] = FirstFailure(r).response /\ calls[r] = 0
                         ELSE calls[r] = 1

\* Options and limit are both invalid, and the options' error is the response.
C9_Witness ==
    \E r \in Requests :
        /\ JsonObjectPost(r) /\ TargetOk(r) /\ ~OptionsOk(r) /\ ~LimitOk(r)
        /\ Done(r)
        /\ response[r] = HandleException(_extract_request_kwargs(PayloadOf(r)).exc)
        /\ response[r] # HandleException(CoerceLimit(PayloadOf(r)).exc)

\* The response request r gets when it is handled alone, from its input only.
CollectedAlone(r) ==
    LET cap == capability[r]
    IN  IF cap.call # "ok" THEN HandleException(Raised(cap.call, cap.msg))
        ELSE IF cap.n >= LimitOf(r) THEN PostsResponse(FirstPosts(r, LimitOf(r)))
        ELSE IF cap.end = "stop" THEN PostsResponse(FirstPosts(r, cap.n))
        ELSE HandleException(Raised(cap.end, cap.msg))
Alone(r) ==
    IF ~IsPostsRequest(r) THEN RouteResponse(Route(Method(environ[r]), Path(environ[r])))
    ELSE IF FirstFailure(r).failed THEN FirstFailure(r).response
    ELSE CollectedAlone(r)

(* C10: under any interleaving of the steps of concurrent requests, each   *)
(* request's result buffer holds only the posts of its own sequence, in    *)
(* their order, and its response is the one it gets when handled alone.    *)
C10_Independent ==
    \A r \in Requests :
        /\ \A i \in 1..Len(results[r]) : results[r][i] = Post(r, i)
        /\ Done(r) => response[r] = Alone(r)

\* Two requests are in their collection loops at once, each with a post collected.
C10_Witness ==
    \E r1 \in Requests, r2 \in Requests :
        /\ r1 # r2
        /\ pc[r1] = "for" /\ pc[r2] = "for"
        /\ Len(results[r1]) = 1 /\ Len(results[r2]) = 1

=============================================================================
